---- MODULE Spec2Model ----
(***************************************************************************)
(* Wire-level message framing of network/message.rs: the command string    *)
(* codec, the header-list codec, the variant <-> command table and the     *)
(* envelope (RawNetworkMessage) encoder and decoder.                       *)
(*                                                                         *)
(* Bytes are the integers 0..255.  Fixed-width unsigned integers (u32,     *)
(* u64, usize) are tuples of 16-bit limbs, least significant limb first,   *)
(* so that every width the code computes with is kept exactly: a u32 is    *)
(* two limbs, a u64 and a usize (64-bit target) are four.  A string is the *)
(* tuple of its characters' code points; as_bytes is its UTF-8 encoding.   *)
(***************************************************************************)
EXTENDS Integers, Sequences, FiniteSets, TLC

VARIABLES
    pc,          \* position of the caller: idle, ready, a decode step, done, failed, returned
    msg,         \* the RawNetworkMessage handed to consensus_encode (or NoMsg)
    wire,        \* the byte stream produced by encode / handed to decode
    written,     \* the usize consensus_encode returned
    pos,         \* bytes the decoder has read from wire
    magic,       \* decoded magic
    cmd_str,     \* decoded command string (the local cmd of consensus_decode)
    declared,    \* CheckedData: declared length (u32 limbs)
    checksum,    \* CheckedData: stored checksum (4 bytes, or <<>> when not read)
    allocated,   \* CheckedData: size of the body buffer allocated (0 = none)
    raw_payload, \* CheckedData: the body handed on (after verification)
    verified,    \* CheckedData: the checksum comparison succeeded
    routine,     \* the dispatch arm selected ("" = none yet)
    mem_pos,     \* position of the cursor mem_d inside raw_payload
    hlen,        \* header list: declared count (u64 limbs)
    capacity,    \* header list: capacity of the result vector (-1 = not allocated)
    ret,         \* header list: headers pushed so far
    payload,     \* the decoded NetworkMessage (or NoPayload)
    err,         \* the error returned (kind "none" while there is none)
    cs           \* last stand-alone CommandString / header-list codec call

vars == <<pc, msg, wire, written, pos, magic, cmd_str, declared, checksum, allocated,
          raw_payload, verified, routine, mem_pos, hlen, capacity, ret, payload,
          err, cs>>

(***************************************************************************)
(* Bounds of the model.                                                    *)
(***************************************************************************)
MaxHeaders == 2      \* longest header list encoded
MaxBlob == 2         \* longest Vec<u8> (alert, filter) encoded
MaxOpaque == 2       \* distinct values of each externally defined payload type
MaxCommandLen == 14  \* longest string handed to the command string encoder
MaxShort == 2        \* command fields handed to the decoder are short by at most this
MaxTrailing == 2     \* most bytes a forged body carries after its payload

(***************************************************************************)
(* Integers as limbs, bytes.                                               *)
(***************************************************************************)
Byte == 0..255

RECURSIVE NatToLimbs(_, _)
NatToLimbs(n, k) ==
    IF k = 0 THEN <<>> ELSE <<n % 65536>> \o NatToLimbs(n \div 65536, k - 1)

\* value of limbs known to be below 2^31
RECURSIVE LimbsToNat(_)
LimbsToNat(ls) ==
    IF ls = <<>> THEN 0 ELSE Head(ls) + 65536 * LimbsToNat(Tail(ls))

\* a > b for two limb tuples of the same width
RECURSIVE LimbsGt(_, _)
LimbsGt(a, b) ==
    LET n == Len(a) IN
    IF n = 0 THEN FALSE
    ELSE IF a[n] # b[n] THEN a[n] > b[n]
    ELSE LimbsGt(SubSeq(a, 1, n - 1), SubSeq(b, 1, n - 1))

\* widen (zero-extend) limbs to k limbs
Widen(ls, k) == [i \in 1..k |-> IF i <= Len(ls) THEN ls[i] ELSE 0]

\* little-endian bytes of an integer: u32::consensus_encode, u64::consensus_encode
RECURSIVE int_encode(_)
int_encode(ls) ==
    IF ls = <<>> THEN <<>>
    ELSE <<Head(ls) % 256, Head(ls) \div 256>> \o int_encode(Tail(ls))

\* integer of little-endian bytes (an even number of them)
int_decode(bs) == [i \in 1..(Len(bs) \div 2) |-> bs[2 * i - 1] + 256 * bs[2 * i]]

\* the product of a usize (64-bit target) and a small factor, limb by limb:
\* <<product limbs, carry out of the word>>
RECURSIVE MulLimbs(_, _, _)
MulLimbs(ls, m, carry) ==
    IF ls = <<>> THEN <<<<>>, carry>>
    ELSE LET t == Head(ls) * m + carry
             rest == MulLimbs(Tail(ls), m, t \div 65536)
         IN <<(<<t % 65536>> \o rest[1]), rest[2]>>

\* usize::saturating_mul: the largest usize where the product leaves the word
saturating_mul(ls, m) ==
    LET r == MulLimbs(ls, m, 0) IN
    IF r[2] # 0 THEN [some |-> TRUE, val |-> <<65535, 65535, 65535, 65535>>]
    ELSE [some |-> TRUE, val |-> r[1]]

\* usize::checked_mul: None where the product leaves the word
checked_mul(ls, m) ==
    LET r == MulLimbs(ls, m, 0) IN
    IF r[2] # 0 THEN [some |-> FALSE, val |-> <<>>] ELSE [some |-> TRUE, val |-> r[1]]

(***************************************************************************)
(* Errors (encode::Error).                                                 *)
(***************************************************************************)
Error(kind, token, text, requested) ==
    [kind |-> kind, token |-> token, text |-> text, requested |-> requested]

NoErr == Error("none", <<>>, "", <<>>)
IoError == Error("Io", <<>>, "UnexpectedEof", <<>>)
UnrecognizedNetworkCommand(s) == Error("UnrecognizedNetworkCommand", s, "", <<>>)
ParseFailed(text) == Error("ParseFailed", <<>>, text, <<>>)

MAX_VEC_SIZE == 33554432

OversizedVectorAllocation(req) ==
    Error("OversizedVectorAllocation", <<>>, "", Widen(req, 4))
InvalidChecksum == Error("InvalidChecksum", <<>>, "", <<>>)


(***************************************************************************)
(* Primitives of consensus::encode used by the codecs.                     *)
(***************************************************************************)
\* the result of a decode call: the value, the position after it, or the error
Ok(val, p) == [ok |-> TRUE, val |-> val, pos |-> p, err |-> NoErr]
Fail(e, p) == [ok |-> FALSE, val |-> <<>>, pos |-> p, err |-> e]

\* read exactly n bytes of d after position p
read_exact(d, p, n) ==
    IF p + n > Len(d) THEN Fail(IoError, p) ELSE Ok(SubSeq(d, p + 1, p + n), p + n)

\* first four bytes of the double hash of data.  The hash is external; this
\* stand-in depends on the length and on every byte with its position, and
\* gives the empty body the checksum the code's test vectors give it
\* (5d f6 e0 e2).  The sum is halved so that the evaluation stays shallow.
RECURSIVE checksum_sum(_, _, _, _)
checksum_sum(data, lo, hi, k) ==
    IF lo > hi THEN 0
    ELSE IF lo = hi THEN ((((2 * k + 1) * lo + k) % 251) + 1) * (data[lo] + 1)
    ELSE LET mid == (lo + hi) \div 2 IN
         (checksum_sum(data, lo, mid, k) + checksum_sum(data, mid + 1, hi, k)) % 65536

sha2_checksum(data) ==
    [k \in 1..4 |-> (<<93, 246, 224, 226>>[k] + checksum_sum(data, 1, Len(data), k)) % 256]

\* VarInt: compact size of a u64
VarInt_encode(n) ==
    IF n[2] = 0 /\ n[3] = 0 /\ n[4] = 0 /\ n[1] < 253 THEN <<n[1]>>
    ELSE IF n[2] = 0 /\ n[3] = 0 /\ n[4] = 0 THEN <<253>> \o int_encode(<<n[1]>>)
    ELSE IF n[3] = 0 /\ n[4] = 0 THEN <<254>> \o int_encode(<<n[1], n[2]>>)
    ELSE <<255>> \o int_encode(n)

VarInt_decode(d, p) ==
    LET first == read_exact(d, p, 1) IN
    IF ~first.ok THEN first
    ELSE LET n == first.val[1]
             width == IF n = 255 THEN 8 ELSE IF n = 254 THEN 4 ELSE IF n = 253 THEN 2 ELSE 0
             more == read_exact(d, first.pos, width)
         IN IF width = 0 THEN Ok(<<n, 0, 0, 0>>, first.pos)
            ELSE IF ~more.ok THEN more
            ELSE Ok(Widen(int_decode(more.val), 4), more.pos)

\* Vec<u8>: count, then the bytes; the count is bounded before the allocation
VecU8_encode(v) == VarInt_encode(NatToLimbs(Len(v), 4)) \o v

VecU8_decode(d, p) ==
    LET n == VarInt_decode(d, p) IN
    IF ~n.ok THEN n
    ELSE IF LimbsGt(n.val, NatToLimbs(MAX_VEC_SIZE, 4))
         THEN Fail(OversizedVectorAllocation(n.val), n.pos)
    ELSE read_exact(d, n.pos, LimbsToNat(n.val))

\* block::BlockHeader: version, prev_blockhash, merkle_root, time, bits, nonce
BlockHeader_encode(h) ==
    int_encode(h.version) \o h.prev_blockhash \o h.merkle_root
        \o int_encode(h.time) \o int_encode(h.bits) \o int_encode(h.nonce)

BlockHeader_decode(d, p) ==
    LET r == read_exact(d, p, 80) IN
    IF ~r.ok THEN r
    ELSE Ok([version |-> int_decode(SubSeq(r.val, 1, 4)),
             prev_blockhash |-> SubSeq(r.val, 5, 36),
             merkle_root |-> SubSeq(r.val, 37, 68),
             time |-> int_decode(SubSeq(r.val, 69, 72)),
             bits |-> int_decode(SubSeq(r.val, 73, 76)),
             nonce |-> int_decode(SubSeq(r.val, 77, 80))], r.pos)

\* mem::size_of::<block::BlockHeader>()
SizeOfBlockHeader == 80

\* the externally defined structured payload types, each an opaque value with
\* a wire form of its own: a byte naming the type, then the value
ExternalTypes ==
    <<"VersionMessage", "Vec<(u32, Address)>", "Vec<Inventory>", "GetBlocksMessage",
      "GetHeadersMessage", "Transaction", "Block", "GetCFilters", "CFilter",
      "GetCFHeaders", "CFHeaders", "GetCFCheckpt", "CFCheckpt", "Reject">>

TypeTag(ty) == CHOOSE i \in 1..Len(ExternalTypes) : ExternalTypes[i] = ty

External_encode(ty, v) == <<TypeTag(ty), v>>

External_decode(ty, d, p) ==
    LET r == read_exact(d, p, 2) IN
    IF ~r.ok THEN r
    ELSE IF r.val[1] # TypeTag(ty) THEN Fail(ParseFailed("malformed payload"), p)
    ELSE Ok(r.val[2], r.pos)

(***************************************************************************)
(* message_bloom_filter.rs                                                 *)
(***************************************************************************)
\* impl_consensus_encoding!(FilterLoadMessage, filter, n_hash_functions, n_tweak, n_flags)
FilterLoadMessage_encode(m) ==
    VecU8_encode(m.filter) \o int_encode(m.n_hash_functions) \o int_encode(m.n_tweak)
        \o <<IF m.n_flags THEN 1 ELSE 0>>

FilterLoadMessage_decode(d, p) ==
    LET f == VecU8_decode(d, p) IN
    IF ~f.ok THEN f
    ELSE LET h == read_exact(d, f.pos, 4) IN
    IF ~h.ok THEN h
    ELSE LET t == read_exact(d, h.pos, 4) IN
    IF ~t.ok THEN t
    ELSE LET b == read_exact(d, t.pos, 1) IN
    IF ~b.ok THEN b
    ELSE Ok([filter |-> f.val, n_hash_functions |-> int_decode(h.val),
             n_tweak |-> int_decode(t.val), n_flags |-> (b.val[1] # 0)], b.pos)

(***************************************************************************)
(* message.rs: CommandString                                               *)
(***************************************************************************)
\* str::as_bytes: the UTF-8 encoding of a string of code points below 0x800
RECURSIVE as_bytes(_)
as_bytes(s) ==
    IF s = <<>> THEN <<>>
    ELSE (IF Head(s) < 128 THEN <<Head(s)>>
          ELSE <<192 + (Head(s) \div 64), 128 + (Head(s) % 64)>>) \o as_bytes(Tail(s))

\* an encoder that already refuses a string of 12 bytes
CommandString_encode_off_by_one(s) ==
    LET strbytes == as_bytes(s)
        rawbytes == [x \in 1..12 |-> IF x <= Len(strbytes) THEN strbytes[x] ELSE 0]
    IN IF Len(strbytes) >= 12
       THEN [ok |-> FALSE, out |-> <<>>, n |-> 0, err |-> UnrecognizedNetworkCommand(s)]
       ELSE [ok |-> TRUE, out |-> rawbytes, n |-> 12, err |-> NoErr]

\* CommandString::consensus_encode: [ok, out (bytes written), n (count returned), err]
CommandString_encode(s) ==
    LET strbytes == as_bytes(s)
        rawbytes == [x \in 1..12 |-> IF x <= Len(strbytes) THEN strbytes[x] ELSE 0]
    IN IF Len(strbytes) > 12
       THEN [ok |-> FALSE, out |-> <<>>, n |-> 0, err |-> UnrecognizedNetworkCommand(s)]
       ELSE [ok |-> TRUE, out |-> rawbytes, n |-> 12, err |-> NoErr]

\* a decoder that takes the first zero byte for the end of the string
RECURSIVE filter_map_until_nul(_)
filter_map_until_nul(rawbytes) ==
    IF rawbytes = <<>> \/ Head(rawbytes) = 0 THEN <<>>
    ELSE <<Head(rawbytes)>> \o filter_map_until_nul(Tail(rawbytes))

\* the filter_map of CommandString::consensus_decode: u as char for every u > 0
RECURSIVE filter_map(_)
filter_map(rawbytes) ==
    IF rawbytes = <<>> THEN <<>>
    ELSE (IF Head(rawbytes) > 0 THEN <<Head(rawbytes)>> ELSE <<>>)
             \o filter_map(Tail(rawbytes))

\* CommandString::consensus_decode
CommandString_decode(d, p) ==
    LET rawbytes == read_exact(d, p, 12) IN
    IF ~rawbytes.ok THEN rawbytes ELSE Ok(filter_map(rawbytes.val), rawbytes.pos)

(***************************************************************************)
(* message.rs: NetworkMessage                                              *)
(***************************************************************************)
\* enum NetworkMessage: the type each variant wraps ("" for a unit variant)
PayloadType ==
    [Version |-> "VersionMessage", Verack |-> "", Addr |-> "Vec<(u32, Address)>",
     Inv |-> "Vec<Inventory>", GetData |-> "Vec<Inventory>",
     NotFound |-> "Vec<Inventory>", GetBlocks |-> "GetBlocksMessage",
     GetHeaders |-> "GetHeadersMessage", MemPool |-> "", Tx |-> "Transaction",
     Block |-> "Block", Headers |-> "Vec<BlockHeader>", SendHeaders |-> "",
     GetAddr |-> "", Ping |-> "u64", Pong |-> "u64", GetCFilters |-> "GetCFilters",
     CFilter |-> "CFilter", GetCFHeaders |-> "GetCFHeaders", CFHeaders |-> "CFHeaders",
     GetCFCheckpt |-> "GetCFCheckpt", CFCheckpt |-> "CFCheckpt", Alert |-> "Vec<u8>",
     Reject |-> "Reject", FilterLoad |-> "FilterLoadMessage"]

Variants == DOMAIN PayloadType

NetworkMessage(variant, dat) == [variant |-> variant, dat |-> dat]

\* the arms of the match in NetworkMessage::cmd
cmd_arms(variant) ==
    CASE variant = "Version" -> <<118, 101, 114, 115, 105, 111, 110>>   \* "version"
      [] variant = "Verack" -> <<118, 101, 114, 97, 99, 107>>   \* "verack"
      [] variant = "Addr" -> <<97, 100, 100, 114>>   \* "addr"
      [] variant = "Inv" -> <<105, 110, 118>>   \* "inv"
      [] variant = "GetData" -> <<103, 101, 116, 100, 97, 116, 97>>   \* "getdata"
      [] variant = "NotFound" -> <<110, 111, 116, 102, 111, 117, 110, 100>>   \* "notfound"
      [] variant = "GetBlocks" -> <<103, 101, 116, 98, 108, 111, 99, 107, 115>>   \* "getblocks"
      [] variant = "GetHeaders" -> <<103, 101, 116, 104, 101, 97, 100, 101, 114, 115>>   \* "getheaders"
      [] variant = "MemPool" -> <<109, 101, 109, 112, 111, 111, 108>>   \* "mempool"
      [] variant = "Tx" -> <<116, 120>>   \* "tx"
      [] variant = "Block" -> <<98, 108, 111, 99, 107>>   \* "block"
      [] variant = "Headers" -> <<104, 101, 97, 100, 101, 114, 115>>   \* "headers"
      [] variant = "SendHeaders" -> <<115, 101, 110, 100, 104, 101, 97, 100, 101, 114, 115>>   \* "sendheaders"
      [] variant = "GetAddr" -> <<103, 101, 116, 97, 100, 100, 114>>   \* "getaddr"
      [] variant = "Ping" -> <<112, 105, 110, 103>>   \* "ping"
      [] variant = "Pong" -> <<112, 111, 110, 103>>   \* "pong"
      [] variant = "GetCFilters" -> <<103, 101, 116, 99, 102, 105, 108, 116, 101, 114, 115>>   \* "getcfilters"
      [] variant = "CFilter" -> <<99, 102, 105, 108, 116, 101, 114>>   \* "cfilter"
      [] variant = "GetCFHeaders" -> <<103, 101, 116, 99, 102, 104, 101, 97, 100, 101, 114, 115>>   \* "getcfheaders"
      [] variant = "CFHeaders" -> <<99, 102, 104, 101, 97, 100, 101, 114, 115>>   \* "cfheaders"
      [] variant = "GetCFCheckpt" -> <<103, 101, 116, 99, 102, 99, 107, 112, 116>>   \* "getcfckpt"
      [] variant = "CFCheckpt" -> <<99, 102, 99, 104, 101, 99, 107, 112, 116>>   \* "cfcheckpt"
      [] variant = "Alert" -> <<97, 108, 101, 114, 116>>   \* "alert"
      [] variant = "Reject" -> <<114, 101, 106, 101, 99, 116>>   \* "reject"
      [] variant = "FilterLoad" -> <<102, 105, 108, 116, 101, 114, 108, 111, 97, 100>>   \* "filterload"

\* the arms of the match in RawNetworkMessage::consensus_decode: the variant an
\* arm builds, "" for the default arm
decode_arms(c) ==
    CASE c = <<118, 101, 114, 115, 105, 111, 110>> -> "Version"   \* "version"
      [] c = <<118, 101, 114, 97, 99, 107>> -> "Verack"   \* "verack"
      [] c = <<97, 100, 100, 114>> -> "Addr"   \* "addr"
      [] c = <<105, 110, 118>> -> "Inv"   \* "inv"
      [] c = <<103, 101, 116, 100, 97, 116, 97>> -> "GetData"   \* "getdata"
      [] c = <<110, 111, 116, 102, 111, 117, 110, 100>> -> "NotFound"   \* "notfound"
      [] c = <<103, 101, 116, 98, 108, 111, 99, 107, 115>> -> "GetBlocks"   \* "getblocks"
      [] c = <<103, 101, 116, 104, 101, 97, 100, 101, 114, 115>> -> "GetHeaders"   \* "getheaders"
      [] c = <<109, 101, 109, 112, 111, 111, 108>> -> "MemPool"   \* "mempool"
      [] c = <<98, 108, 111, 99, 107>> -> "Block"   \* "block"
      [] c = <<104, 101, 97, 100, 101, 114, 115>> -> "Headers"   \* "headers"
      [] c = <<115, 101, 110, 100, 104, 101, 97, 100, 101, 114, 115>> -> "SendHeaders"   \* "sendheaders"
      [] c = <<103, 101, 116, 97, 100, 100, 114>> -> "GetAddr"   \* "getaddr"
      [] c = <<112, 105, 110, 103>> -> "Ping"   \* "ping"
      [] c = <<112, 111, 110, 103>> -> "Pong"   \* "pong"
      [] c = <<116, 120>> -> "Tx"   \* "tx"
      [] c = <<103, 101, 116, 99, 102, 105, 108, 116, 101, 114, 115>> -> "GetCFilters"   \* "getcfilters"
      [] c = <<99, 102, 105, 108, 116, 101, 114>> -> "CFilter"   \* "cfilter"
      [] c = <<103, 101, 116, 99, 102, 104, 101, 97, 100, 101, 114, 115>> -> "GetCFHeaders"   \* "getcfheaders"
      [] c = <<99, 102, 104, 101, 97, 100, 101, 114, 115>> -> "CFHeaders"   \* "cfheaders"
      [] c = <<103, 101, 116, 99, 102, 99, 107, 112, 116>> -> "GetCFCheckpt"   \* "getcfckpt"
      [] c = <<99, 102, 99, 104, 101, 99, 107, 112, 116>> -> "CFCheckpt"   \* "cfcheckpt"
      [] c = <<114, 101, 106, 101, 99, 116>> -> "Reject"   \* "reject"
      [] c = <<97, 108, 101, 114, 116>> -> "Alert"   \* "alert"
      [] c = <<102, 105, 108, 116, 101, 114, 108, 111, 97, 100>> -> "FilterLoad"   \* "filterload"
      [] OTHER -> ""

\* a table that spells the checkpoint command in full
cmd_typo(variant) ==
    IF variant = "GetCFCheckpt"
    THEN <<103, 101, 116, 99, 102, 99, 104, 101, 99, 107, 112, 116>>
    ELSE cmd_arms(variant)

\* NetworkMessage::cmd: the command of a variant
cmd(variant) == cmd_arms(variant)

\* a match with one more arm, accepting the checkpoint command spelled in full
dispatch_alias(c) ==
    IF c = <<103, 101, 116, 99, 102, 99, 104, 101, 99, 107, 112, 116>>
    THEN "GetCFCheckpt"
    ELSE decode_arms(c)

\* match &cmd[..]: the variant selected for a decoded command, "" for none
dispatch(c) == decode_arms(c)

\* NetworkMessage::command
command(variant) == cmd(variant)

\* consensus::serialize of a value of the type a variant wraps
serialize(ty, dat) ==
    CASE ty = "u64" -> int_encode(dat)
      [] ty = "Vec<u8>" -> VecU8_encode(dat)
      [] ty = "FilterLoadMessage" -> FilterLoadMessage_encode(dat)
      [] OTHER -> External_encode(ty, dat)

\* Decodable::consensus_decode at the type a variant wraps
consensus_decode(ty, d, p) ==
    CASE ty = "u64" -> (LET r == read_exact(d, p, 8) IN
                        IF ~r.ok THEN r ELSE Ok(int_decode(r.val), r.pos))
      [] ty = "Vec<u8>" -> VecU8_decode(d, p)
      [] ty = "FilterLoadMessage" -> FilterLoadMessage_decode(d, p)
      [] OTHER -> External_decode(ty, d, p)

(***************************************************************************)
(* message.rs: HeaderSerializationWrapper                                  *)
(***************************************************************************)
\* a loop that writes the headers without the byte after each
RECURSIVE encode_headers_bare(_)
encode_headers_bare(hs) ==
    IF hs = <<>> THEN <<>>
    ELSE BlockHeader_encode(Head(hs)) \o encode_headers_bare(Tail(hs))

\* the loop of HeaderSerializationWrapper::consensus_encode
RECURSIVE encode_headers(_)
encode_headers(hs) ==
    IF hs = <<>> THEN <<>>
    ELSE BlockHeader_encode(Head(hs)) \o <<0>> \o encode_headers(Tail(hs))

\* HeaderSerializationWrapper::consensus_encode: [out, len]
HeaderSerializationWrapper_encode(hs) ==
    LET count == VarInt_encode(NatToLimbs(Len(hs), 4))
        body == encode_headers(hs)
    IN [out |-> count \o body, len |-> Len(count) + Len(hs) * (80 + 1)]

(***************************************************************************)
(* message.rs: RawNetworkMessage::consensus_encode                         *)
(***************************************************************************)
\* CheckedData::consensus_encode: length, checksum, data
CheckedData_encode(data) ==
    int_encode(NatToLimbs(Len(data), 2)) \o sha2_checksum(data) \o data

\* the match inside CheckedData(..): the body of each variant
payload_bytes(p) ==
    IF p.variant \in {"Verack", "SendHeaders", "MemPool", "GetAddr"} THEN <<>>
    ELSE IF p.variant = "Headers" THEN HeaderSerializationWrapper_encode(p.dat).out
    ELSE serialize(PayloadType[p.variant], p.dat)

\* an encoder that leaves the command's bytes out of the count it returns
RawNetworkMessage_encode_short_count(m) ==
    LET s1 == int_encode(m.magic)
        c == CommandString_encode(command(m.payload.variant))
        s3 == CheckedData_encode(payload_bytes(m.payload))
    IN IF ~c.ok THEN [ok |-> FALSE, out |-> s1, len |-> 0, err |-> c.err]
       ELSE [ok |-> TRUE, out |-> s1 \o c.out \o s3,
             len |-> Len(s1) + Len(s3), err |-> NoErr]

\* RawNetworkMessage::consensus_encode: [ok, out, len, err]
RawNetworkMessage_encode(m) ==
    LET s1 == int_encode(m.magic)
        c == CommandString_encode(command(m.payload.variant))
        s3 == CheckedData_encode(payload_bytes(m.payload))
    IN IF ~c.ok THEN [ok |-> FALSE, out |-> s1, len |-> 0, err |-> c.err]
       ELSE [ok |-> TRUE, out |-> s1 \o c.out \o s3,
             len |-> Len(s1) + c.n + Len(s3), err |-> NoErr]

(***************************************************************************)
(* Inputs: the values the callers hand to the codecs.                      *)
(***************************************************************************)
Cycle(p, n) == [i \in 1..n |-> p[((i - 1) % Len(p)) + 1]]

\* all tuples over S of length at most n
RECURSIVE TuplesUpTo(_, _)
TuplesUpTo(S, n) ==
    IF n = 0 THEN {<<>>}
    ELSE LET shorter == TuplesUpTo(S, n - 1)
         IN shorter \cup {Append(t, x) : t \in shorter, x \in S}

Magics == {<<48889, 55732>>, <<4363, 1801>>}    \* 0xD9B4BEF9, 0x0709110B

BlockHeaderOf(k) ==
    [version |-> <<k, 8192>>, prev_blockhash |-> [i \in 1..32 |-> (k * i) % 256],
     merkle_root |-> [i \in 1..32 |-> (k + i) % 256], time |-> <<21999, 23629>>,
     bits |-> <<65535, 7452>>, nonce |-> <<k, k>>]

BlockHeaders == {BlockHeaderOf(1), BlockHeaderOf(2)}
HeaderLists == TuplesUpTo(BlockHeaders, MaxHeaders)
Blobs == TuplesUpTo({0, 181}, MaxBlob)
U64s == {<<100, 0, 0, 0>>, <<0, 0, 0, 0>>, <<65535, 65535, 65535, 65535>>}
FilterLoads ==
    [filter : Blobs, n_hash_functions : {<<11, 0>>},
     n_tweak : {<<0, 0>>, <<65535, 65535>>}, n_flags : BOOLEAN]

ValuesOf(variant) ==
    LET ty == PayloadType[variant] IN
    CASE ty = "" -> {<<>>}
      [] ty = "u64" -> U64s
      [] ty = "Vec<u8>" -> Blobs
      [] ty = "Vec<BlockHeader>" -> HeaderLists
      [] ty = "FilterLoadMessage" -> FilterLoads
      [] OTHER -> 0..(MaxOpaque - 1)

Payloads == UNION {{NetworkMessage(v, dat) : dat \in ValuesOf(v)} : v \in Variants}
Messages == {[magic |-> m, payload |-> p] : m \in Magics, p \in Payloads}

\* strings handed to CommandString::consensus_encode: ASCII, with a two-byte
\* character, with a NUL character; every length up to MaxCommandLen
CommandStrings ==
    {Cycle(p, n) : p \in {<<65, 110, 100, 114, 101, 119>>, <<233, 65>>, <<118, 0, 120>>},
                   n \in 0..MaxCommandLen}
        \cup {cmd(v) : v \in Variants}

\* byte strings handed to CommandString::consensus_decode: up to 12 bytes, with
\* zero bytes leading, interior and trailing, and bytes above 0x7f
CommandFields ==
    {Cycle(p, n) : p \in {<<65, 110, 100, 114, 101, 119, 0, 0, 0, 0, 0, 0>>, <<0>>,
                          <<0, 118, 0, 0, 120>>, <<200, 0, 65>>, <<102, 111, 111>>},
                   n \in (12 - MaxShort)..12}

\* the streams a peer may send that no encoder produced
Frame(m, field, len, sum, body) == int_encode(m) \o field \o int_encode(len) \o sum \o body

WrongSum(body) == [sha2_checksum(body) EXCEPT ![1] = (@ + 1) % 256]

Pad12(s) == [i \in 1..12 |-> IF i <= Len(s) THEN s[i] ELSE 0]

ForgedFields ==
    {Pad12(cmd(v)) :
        v \in {"Headers", "Verack", "Ping", "Alert", "Version", "FilterLoad", "GetCFHeaders",
               "MemPool", "SendHeaders", "GetAddr"}}
    \cup {Pad12(<<102, 111, 111>>),                                           \* "foo"
          <<0, 0, 0, 0, 0, 0, 0, 0, 0, 0, 0, 0>>,
          <<103, 101, 116, 99, 102, 99, 104, 101, 99, 107, 112, 116>>,        \* "getcfcheckpt"
          <<102, 0, 111, 0, 0, 111, 0, 0, 0, 0, 0, 33>>,                      \* "f\0o\0\0o...!"
          <<118, 0, 101, 114, 0, 97, 99, 107, 0, 0, 0, 0>>,                   \* "v\0er\0ack"
          <<0, 0, 0, 0, 0, 104, 101, 97, 100, 101, 114, 115>>}                \* "\0..headers"

\* header lists as a peer may write them: any marker after each header
RECURSIVE encode_marked(_)
encode_marked(es) ==
    IF es = <<>> THEN <<>>
    ELSE BlockHeader_encode(Head(es)[1]) \o <<Head(es)[2]>> \o encode_marked(Tail(es))

MarkedLists == TuplesUpTo({<<BlockHeaderOf(1), 0>>, <<BlockHeaderOf(2), 1>>}, MaxHeaders)

\* counts around the bounds: 419430 * 80 = MAX_VEC_SIZE, 419431, the largest
\* count whose product fits the word, the next one, and 2^64 - 1
BigCounts ==
    {<<26214, 6, 0, 0>>, <<26215, 6, 0, 0>>, <<13107, 13107, 13107, 819>>,
     <<13108, 13107, 13107, 819>>, <<65535, 65535, 65535, 65535>>}

HeaderBodies ==
    {VarInt_encode(NatToLimbs(Len(es) + more, 4)) \o encode_marked(es) :
        es \in MarkedLists, more \in {0, 1}}
    \cup {VarInt_encode(n) \o encode_marked(es) :
            n \in BigCounts, es \in {<<>>, <<<<BlockHeaderOf(1), 1>>>>}}

ForgedPayloads ==
    {NetworkMessage("Ping", <<100, 0, 0, 0>>), NetworkMessage("Alert", <<181>>),
     NetworkMessage("Version", 0), NetworkMessage("Verack", <<>>),
     NetworkMessage("Headers", <<BlockHeaderOf(1)>>),
     NetworkMessage("FilterLoad", [filter |-> <<181, 15>>, n_hash_functions |-> <<11, 0>>,
                                   n_tweak |-> <<0, 0>>, n_flags |-> FALSE])}

Trailings == {Cycle(<<7, 0>>, n) : n \in 0..MaxTrailing}

PayloadBodies == {payload_bytes(p) \o t : p \in ForgedPayloads, t \in Trailings}

ForgedBodies == HeaderBodies \cup PayloadBodies

\* declared lengths that are not the body's: one more, MAX_VEC_SIZE + 1, 2^32 - 1
WrongLens(body) == {NatToLimbs(Len(body) + 1, 2), <<1, 512>>, <<65535, 65535>>}

ForgedStreams ==
    LET m == <<48889, 55732>>
        valid == {Frame(m, f, NatToLimbs(Len(b), 2), sha2_checksum(b), b) :
                    f \in ForgedFields, b \in ForgedBodies}
        some == {<<f, b>> \in ForgedFields \X ForgedBodies :
                    /\ dispatch(filter_map(f)) \in {"Headers", "Verack", "Ping", ""}
                    /\ b \in {payload_bytes(p) : p \in ForgedPayloads}}
        badsum == {Frame(m, x[1], NatToLimbs(Len(x[2]), 2), WrongSum(x[2]), x[2]) : x \in some}
        badlen == UNION {{Frame(m, x[1], l, sum, x[2]) :
                            l \in WrongLens(x[2]),
                            sum \in {sha2_checksum(x[2]), WrongSum(x[2])}} : x \in some}
        short == {SubSeq(w, 1, n) : w \in badsum, n \in {0, 3, 15, 19, 23}}
        trailed == {Frame(m, x[1], NatToLimbs(Len(x[2]), 2), sha2_checksum(x[2]), x[2]) \o t :
                      x \in some, t \in Trailings \ {<<>>}}
    IN valid \cup badsum \cup badlen \cup short \cup trailed

NoPayload == NetworkMessage("", <<>>)
NoMsg == [magic |-> <<>>, payload |-> NoPayload]
NoCall == [op |-> "", input |-> <<>>, ok |-> FALSE, out |-> <<>>, err |-> NoErr]

(***************************************************************************)
(* State machine: one caller that encodes a message or receives a forged   *)
(* stream, then decodes the stream call by call.                           *)
(***************************************************************************)
DecoderVars == <<pos, magic, cmd_str, declared, checksum, allocated, raw_payload,
                 verified, routine, mem_pos, hlen, capacity, ret, payload, err>>

DecoderReset ==
    /\ pos' = 0
    /\ magic' = <<>>
    /\ cmd_str' = <<>>
    /\ declared' = <<>>
    /\ checksum' = <<>>
    /\ allocated' = 0
    /\ raw_payload' = <<>>
    /\ verified' = FALSE
    /\ routine' = ""
    /\ mem_pos' = 0
    /\ hlen' = <<>>
    /\ capacity' = -1
    /\ ret' = <<>>
    /\ payload' = NoPayload
    /\ err' = NoErr

Init ==
    /\ pc = "idle"
    /\ msg = NoMsg
    /\ wire = <<>>
    /\ written = 0
    /\ pos = 0
    /\ magic = <<>>
    /\ cmd_str = <<>>
    /\ declared = <<>>
    /\ checksum = <<>>
    /\ allocated = 0
    /\ raw_payload = <<>>
    /\ verified = FALSE
    /\ routine = ""
    /\ mem_pos = 0
    /\ hlen = <<>>
    /\ capacity = -1
    /\ ret = <<>>
    /\ payload = NoPayload
    /\ err = NoErr
    /\ cs = NoCall

\* serialize(&RawNetworkMessage {magic, payload})
Encode(m) ==
    /\ pc = "idle"
    /\ LET r == RawNetworkMessage_encode(m) IN
        /\ msg' = m
        /\ wire' = r.out
        /\ written' = r.len
        /\ err' = r.err
        /\ pc' = IF r.ok THEN "ready" ELSE "failed"
    /\ cs' = NoCall
    /\ UNCHANGED <<pos, magic, cmd_str, declared, checksum, allocated, raw_payload,
                   verified, routine, mem_pos, hlen, capacity, ret, payload>>

\* a peer's stream arrives instead
Forge(w) ==
    /\ pc = "idle"
    /\ msg' = NoMsg
    /\ wire' = w
    /\ pc' = "ready"
    /\ cs' = NoCall
    /\ UNCHANGED <<written, DecoderVars>>

\* CommandString(s).consensus_encode(&mut encoder)
EncodeCommandString(s) ==
    /\ pc = "idle"
    /\ LET r == CommandString_encode(s) IN
        cs' = [op |-> "encode", input |-> s, ok |-> r.ok, out |-> r.out, err |-> r.err]
    /\ pc' = "returned"
    /\ UNCHANGED <<msg, wire, written, DecoderVars>>

\* CommandString::consensus_decode(&bytes[..])
DecodeCommandString(b) ==
    /\ pc = "idle"
    /\ LET r == CommandString_decode(b, 0) IN
        cs' = [op |-> "decode", input |-> b, ok |-> r.ok, out |-> r.val, err |-> r.err]
    /\ pc' = "returned"
    /\ UNCHANGED <<msg, wire, written, DecoderVars>>

\* the caller starts RawNetworkMessage::consensus_decode on the stream
Begin ==
    /\ pc = "ready"
    /\ pc' = "magic"
    /\ UNCHANGED <<msg, wire, written, DecoderVars, cs>>

\* a failing call returns its error
Failed(e) ==
    /\ pc' = "failed"
    /\ err' = e

\* let magic = Decodable::consensus_decode(&mut d)?
DecodeMagic ==
    /\ pc = "magic"
    /\ LET r == read_exact(wire, pos, 4) IN
        IF r.ok
        THEN /\ magic' = int_decode(r.val)
             /\ pos' = r.pos
             /\ pc' = "command"
             /\ err' = err
        ELSE /\ Failed(r.err)
             /\ UNCHANGED <<magic, pos>>
    /\ UNCHANGED <<msg, wire, written, cmd_str, declared, checksum, allocated,
                   raw_payload, verified, routine, mem_pos, hlen, capacity, ret,
                   payload, cs>>

\* a decoder that looks the command up as soon as it has read it
DecodeCommand_eager ==
    /\ pc = "command"
    /\ LET r == CommandString_decode(wire, pos) IN
        IF ~r.ok
        THEN /\ Failed(r.err)
             /\ UNCHANGED <<cmd_str, pos>>
        ELSE /\ cmd_str' = r.val
             /\ pos' = r.pos
             /\ IF decode_arms(r.val) = ""
                THEN Failed(UnrecognizedNetworkCommand(r.val))
                ELSE pc' = "cd_len" /\ err' = err
    /\ UNCHANGED <<msg, wire, written, magic, declared, checksum, allocated,
                   raw_payload, verified, routine, mem_pos, hlen, capacity, ret,
                   payload, cs>>

\* let cmd = CommandString::consensus_decode(&mut d)?.0
DecodeCommand ==
    /\ pc = "command"
    /\ LET r == CommandString_decode(wire, pos) IN
        IF r.ok
        THEN /\ cmd_str' = r.val
             /\ pos' = r.pos
             /\ pc' = "cd_len"
             /\ err' = err
        ELSE /\ Failed(r.err)
             /\ UNCHANGED <<cmd_str, pos>>
    /\ UNCHANGED <<msg, wire, written, magic, declared, checksum, allocated,
                   raw_payload, verified, routine, mem_pos, hlen, capacity, ret,
                   payload, cs>>

\* a frame decoder that reads the checksum too before it tests the length
CheckedLen_late ==
    /\ pc = "cd_len"
    /\ LET r == read_exact(wire, pos, 4)
           c == read_exact(wire, r.pos, 4)
       IN IF ~r.ok \/ ~c.ok
          THEN /\ Failed(IoError)
               /\ UNCHANGED <<declared, checksum, pos>>
          ELSE /\ declared' = int_decode(r.val)
               /\ checksum' = c.val
               /\ pos' = c.pos
               /\ IF LimbsGt(int_decode(r.val), NatToLimbs(MAX_VEC_SIZE, 2))
                  THEN Failed(OversizedVectorAllocation(int_decode(r.val)))
                  ELSE pc' = "cd_body" /\ err' = err
    /\ UNCHANGED <<msg, wire, written, magic, cmd_str, allocated,
                   raw_payload, verified, routine, mem_pos, hlen, capacity, ret,
                   payload, cs>>

\* CheckedData::consensus_decode: the declared length and its bound
CheckedLen ==
    /\ pc = "cd_len"
    /\ LET r == read_exact(wire, pos, 4) IN
        IF ~r.ok
        THEN /\ Failed(r.err)
             /\ UNCHANGED <<declared, pos>>
        ELSE /\ declared' = int_decode(r.val)
             /\ pos' = r.pos
             /\ IF LimbsGt(int_decode(r.val), NatToLimbs(MAX_VEC_SIZE, 2))
                THEN Failed(OversizedVectorAllocation(int_decode(r.val)))
                ELSE pc' = "cd_checksum" /\ err' = err
    /\ UNCHANGED <<msg, wire, written, magic, cmd_str, checksum, allocated,
                   raw_payload, verified, routine, mem_pos, hlen, capacity, ret,
                   payload, cs>>

\* CheckedData::consensus_decode: the stored checksum
CheckedChecksum ==
    /\ pc = "cd_checksum"
    /\ LET r == read_exact(wire, pos, 4) IN
        IF r.ok
        THEN /\ checksum' = r.val
             /\ pos' = r.pos
             /\ pc' = "cd_body"
             /\ err' = err
        ELSE /\ Failed(r.err)
             /\ UNCHANGED <<checksum, pos>>
    /\ UNCHANGED <<msg, wire, written, magic, cmd_str, declared, allocated,
                   raw_payload, verified, routine, mem_pos, hlen, capacity, ret,
                   payload, cs>>

\* a frame decoder that takes the rest of the stream as the body
CheckedBody_greedy ==
    /\ pc = "cd_body"
    /\ allocated' = Len(wire) - pos
    /\ LET r == read_exact(wire, pos, Len(wire) - pos) IN
        IF r.ok /\ Len(r.val) >= LimbsToNat(declared)
        THEN /\ raw_payload' = r.val
             /\ pos' = r.pos
             /\ pc' = "cd_verify"
             /\ err' = err
        ELSE /\ Failed(IoError)
             /\ UNCHANGED <<raw_payload, pos>>
    /\ UNCHANGED <<msg, wire, written, magic, cmd_str, declared, checksum,
                   verified, routine, mem_pos, hlen, capacity, ret, payload, cs>>

\* CheckedData::consensus_decode: the buffer of the declared length, filled
CheckedBody ==
    /\ pc = "cd_body"
    /\ allocated' = LimbsToNat(declared)
    /\ LET r == read_exact(wire, pos, LimbsToNat(declared)) IN
        IF r.ok
        THEN /\ raw_payload' = r.val
             /\ pos' = r.pos
             /\ pc' = "cd_verify"
             /\ err' = err
        ELSE /\ Failed(r.err)
             /\ UNCHANGED <<raw_payload, pos>>
    /\ UNCHANGED <<msg, wire, written, magic, cmd_str, declared, checksum,
                   verified, routine, mem_pos, hlen, capacity, ret, payload, cs>>

\* CheckedData::consensus_decode: the checksum of the body against the stored one
CheckedVerify ==
    /\ pc = "cd_verify"
    /\ IF sha2_checksum(raw_payload) # checksum
       THEN /\ Failed(InvalidChecksum)
            /\ UNCHANGED verified
       ELSE /\ verified' = TRUE
            /\ pc' = "dispatch"
            /\ err' = err
    /\ UNCHANGED <<msg, wire, written, pos, magic, cmd_str, declared, checksum,
                   allocated, raw_payload, routine, mem_pos, hlen, capacity, ret,
                   payload, cs>>

\* a cursor over the rest of the stream instead of the checked body
mem_d_stream == SubSeq(wire, 25, Len(wire))

\* let mut mem_d = Cursor::new(raw_payload): what the payload routines read
mem_d == raw_payload

\* match &cmd[..] { .. }: the arm for the decoded command, or the default arm
Dispatch ==
    /\ pc = "dispatch"
    /\ LET v == dispatch(cmd_str) IN
        IF v = ""
        THEN /\ Failed(UnrecognizedNetworkCommand(cmd_str))
             /\ UNCHANGED routine
        ELSE /\ routine' = v
             /\ pc' = IF v = "Headers" THEN "h_len" ELSE "payload"
             /\ err' = err
    /\ mem_pos' = 0
    /\ UNCHANGED <<msg, wire, written, pos, magic, cmd_str, declared, checksum,
                   allocated, raw_payload, verified, hlen, capacity, ret, payload, cs>>

\* arms that reject a body their routine did not read to its end
DecodePayload_exact ==
    /\ pc = "payload"
    /\ LET r == IF PayloadType[routine] = "" THEN Ok(<<>>, mem_pos)
                ELSE consensus_decode(PayloadType[routine], mem_d, mem_pos)
       IN IF ~r.ok
          THEN /\ Failed(r.err)
               /\ UNCHANGED <<payload, mem_pos>>
          ELSE IF r.pos # Len(mem_d)
          THEN /\ Failed(ParseFailed("data not consumed entirely"))
               /\ mem_pos' = r.pos
               /\ UNCHANGED payload
          ELSE /\ payload' = NetworkMessage(routine, r.val)
               /\ mem_pos' = r.pos
               /\ pc' = "done"
               /\ err' = err
    /\ UNCHANGED <<msg, wire, written, pos, magic, cmd_str, declared, checksum,
                   allocated, raw_payload, verified, routine, hlen, capacity, ret, cs>>

\* the selected arm: a unit variant, or Decodable::consensus_decode(&mut mem_d)?
DecodePayload ==
    /\ pc = "payload"
    /\ IF PayloadType[routine] = ""
       THEN /\ payload' = NetworkMessage(routine, <<>>)
            /\ pc' = "done"
            /\ UNCHANGED <<mem_pos, err>>
       ELSE LET r == consensus_decode(PayloadType[routine], mem_d, mem_pos) IN
            IF r.ok
            THEN /\ payload' = NetworkMessage(routine, r.val)
                 /\ mem_pos' = r.pos
                 /\ pc' = "done"
                 /\ err' = err
            ELSE /\ Failed(r.err)
                 /\ UNCHANGED <<payload, mem_pos>>
    /\ UNCHANGED <<msg, wire, written, pos, magic, cmd_str, declared, checksum,
                   allocated, raw_payload, verified, routine, hlen, capacity, ret, cs>>

\* HeaderDeserializationWrapper::consensus_decode: the count and the size check
HeadersLen ==
    /\ pc = "h_len"
    /\ LET len == VarInt_decode(mem_d, mem_pos)
           byte_size == checked_mul(len.val, SizeOfBlockHeader)
       IN IF ~len.ok
          THEN /\ Failed(len.err)
               /\ UNCHANGED <<hlen, mem_pos>>
          ELSE /\ hlen' = len.val
               /\ mem_pos' = len.pos
               /\ IF ~byte_size.some
                  THEN Failed(ParseFailed("Invalid length"))
                  ELSE IF LimbsGt(byte_size.val, NatToLimbs(MAX_VEC_SIZE, 4))
                  THEN Failed(OversizedVectorAllocation(byte_size.val))
                  ELSE pc' = "h_alloc" /\ err' = err
    /\ UNCHANGED <<msg, wire, written, pos, magic, cmd_str, declared, checksum,
                   allocated, raw_payload, verified, routine, capacity, ret, payload, cs>>

\* let mut ret = Vec::with_capacity(len as usize)
HeadersAlloc ==
    /\ pc = "h_alloc"
    /\ capacity' = LimbsToNat(hlen)
    /\ pc' = "h_elem"
    /\ UNCHANGED <<msg, wire, written, pos, magic, cmd_str, declared, checksum,
                   allocated, raw_payload, verified, routine, mem_pos, hlen, ret,
                   payload, err, cs>>

\* a test that lets every byte after a header pass
marker_ignored(marker) == FALSE

\* u8::consensus_decode(&mut d)? != 0u8
carries_transactions(marker) == marker # 0

\* one turn of for _ in 0..len, or the return after the last
HeadersElem ==
    /\ pc = "h_elem"
    /\ IF Len(ret) = LimbsToNat(hlen)
       THEN /\ payload' = NetworkMessage("Headers", ret)
            /\ pc' = "done"
            /\ UNCHANGED <<ret, mem_pos, err>>
       ELSE LET h == BlockHeader_decode(mem_d, mem_pos)
                marker == read_exact(mem_d, h.pos, 1)
            IN IF ~h.ok
               THEN /\ Failed(h.err)
                    /\ UNCHANGED <<ret, mem_pos, payload>>
               ELSE /\ ret' = Append(ret, h.val)
                    /\ mem_pos' = marker.pos
                    /\ payload' = payload
                    /\ IF ~marker.ok THEN Failed(marker.err)
                       ELSE IF carries_transactions(marker.val[1])
                       THEN Failed(ParseFailed("Headers message should not contain transactions"))
                       ELSE pc' = pc /\ err' = err
    /\ UNCHANGED <<msg, wire, written, pos, magic, cmd_str, declared, checksum,
                   allocated, raw_payload, verified, routine, hlen, capacity, cs>>

\* the call has returned; the caller goes on to its next one
Return ==
    /\ pc \in {"done", "failed", "returned"}
    /\ pc' = "idle"
    /\ msg' = NoMsg
    /\ wire' = <<>>
    /\ written' = 0
    /\ DecoderReset
    /\ cs' = NoCall

Next ==
    \/ \E m \in Messages : Encode(m)
    \/ \E w \in ForgedStreams : Forge(w)
    \/ \E s \in CommandStrings : EncodeCommandString(s)
    \/ \E b \in CommandFields : DecodeCommandString(b)
    \/ Begin
    \/ DecodeMagic
    \/ DecodeCommand
    \/ CheckedLen
    \/ CheckedChecksum
    \/ CheckedBody
    \/ CheckedVerify
    \/ Dispatch
    \/ DecodePayload
    \/ HeadersLen
    \/ HeadersAlloc
    \/ HeadersElem
    \/ Return

Spec == Init /\ [][Next]_vars

(***************************************************************************)
(* Properties.                                                             *)
(***************************************************************************)
\* the stream being decoded was produced by the encoder from msg
Encoded == msg.payload.variant # ""

\* a decode call has returned
Finished == pc \in {"done", "failed"}

\* the name the specification gives to an error of the code
SpecName(kind) ==
    CASE kind = "UnrecognizedNetworkCommand" -> "UnrecognizedCommand"
      [] kind = "InvalidChecksum" -> "ChecksumMismatch"
      [] kind = "OversizedVectorAllocation" -> "OversizedAllocation"
      [] kind = "ParseFailed" -> "ProtocolViolation"
      [] kind = "Io" -> "Truncated"
      [] OTHER -> kind

NonZero(b) == b # 0

C2_EncodeLayout ==
    Encoded =>
        LET body == payload_bytes(msg.payload)
            tok == cmd(msg.payload.variant)
        IN /\ Len(wire) = 24 + Len(body)
           /\ written = Len(wire)
           /\ wire[1] + 256 * wire[2] = msg.magic[1]
           /\ wire[3] + 256 * wire[4] = msg.magic[2]
           /\ \A i \in 1..12 : wire[4 + i] = IF i <= Len(tok) THEN tok[i] ELSE 0
           /\ wire[17] + 256 * wire[18] = Len(body)
           /\ wire[19] = 0 /\ wire[20] = 0
           /\ SubSeq(wire, 21, 24) = sha2_checksum(body)
           /\ SubSeq(wire, 25, Len(wire)) = body
           /\ msg.payload.variant \in {"Verack", "MemPool", "SendHeaders", "GetAddr"} =>
                 /\ Len(wire) = 24
                 /\ SubSeq(wire, 17, 24) = <<0, 0, 0, 0, 93, 246, 224, 226>>
           /\ msg.payload.variant = "Verack" /\ msg.magic = <<48889, 55732>> =>
                 wire = <<249, 190, 180, 217, 118, 101, 114, 97, 99, 107, 0, 0, 0, 0,
                          0, 0, 0, 0, 0, 0, 93, 246, 224, 226>>

C2_Witness ==
    /\ Encoded
    /\ pc = "ready"
    /\ msg.payload = NetworkMessage("Ping", <<100, 0, 0, 0>>)
    /\ Len(wire) = 32
    /\ SubSeq(wire, 25, 32) = <<100, 0, 0, 0, 0, 0, 0, 0>>

\* C3 as claimed: the variant -> command mapping is injective with exactly 24
\* distinct commands, every command of a variant selects that variant on
\* decode, and the variant a decode selects has the decoded command.
C3_Original ==
    /\ \A v, w \in Variants : cmd(v) = cmd(w) => v = w
    /\ Cardinality({cmd(v) : v \in Variants}) = 24
    /\ \A v \in Variants : dispatch(cmd(v)) = v
    /\ routine # "" => cmd(routine) = cmd_str

\* C3 (amended): the variant -> command mapping is injective with exactly 25
\* distinct commands (filterload is the 25th); every command of a variant is
\* accepted by the decode match and selects that variant; every command the
\* decode match accepts is the command of the variant it selects; and decoding
\* an encoded message selects the variant that was encoded.
C3_TokenTable ==
    /\ \A v, w \in Variants : cmd(v) = cmd(w) => v = w
    /\ Cardinality({cmd(v) : v \in Variants}) = 25
    /\ \A v \in Variants : dispatch(cmd(v)) = v
    /\ \A c \in CommandStrings \cup {cmd_str} :
          dispatch(c) # "" => dispatch(c) \in Variants /\ cmd(dispatch(c)) = c
    /\ routine # "" => cmd(routine) = cmd_str
    /\ Encoded /\ routine # "" => routine = msg.payload.variant

C3_Witness ==
    /\ Encoded
    /\ pc = "done"
    /\ routine = "FilterLoad"
    /\ cmd_str = <<102, 105, 108, 116, 101, 114, 108, 111, 97, 100>>

\* C4 as claimed: encoding a string of more than 12 bytes fails with an error
\* of its own, CommandTooLong, which is not the decoder's UnrecognizedCommand.
C4_Original ==
    cs.op = "encode" /\ Len(as_bytes(cs.input)) > 12 =>
        ~cs.ok /\ SpecName(cs.err.kind) = "CommandTooLong"

\* C4 (amended): encoding a string of more than 12 bytes fails with
\* UnrecognizedNetworkCommand, the error the envelope decoder returns for an
\* unknown command, carrying the string, and writes nothing; a string of
\* exactly 12 bytes gives those 12 bytes; a shorter one gives its bytes
\* followed by zero bytes up to 12.  Length above 12 is the only failure.
C4_CommandEncode ==
    cs.op = "encode" =>
        LET bytes == as_bytes(cs.input) IN
        IF Len(bytes) > 12
        THEN /\ ~cs.ok
             /\ cs.err.kind = "UnrecognizedNetworkCommand"
             /\ cs.err.token = cs.input
             /\ cs.out = <<>>
        ELSE /\ cs.ok
             /\ cs.err.kind = "none"
             /\ Len(cs.out) = 12
             /\ SubSeq(cs.out, 1, Len(bytes)) = bytes
             /\ \A i \in (Len(bytes) + 1)..12 : cs.out[i] = 0
             /\ Len(bytes) = 12 => cs.out = bytes

C4_Witness ==
    /\ cs.op = "encode"
    /\ cs.input = <<65, 110, 100, 114, 101, 119, 65, 110, 100, 114, 101, 119, 65>>
    /\ ~cs.ok
    /\ cs.err.token = cs.input

\* C5: decoding 12 bytes never fails and gives the nonzero bytes in their
\* order, every zero byte dropped wherever it stands (all zero: the empty
\* string); fewer than 12 bytes fail.
C5_CommandDecode ==
    cs.op = "decode" =>
        IF Len(cs.input) < 12
        THEN ~cs.ok /\ cs.err.kind = "Io"
        ELSE /\ cs.ok
             /\ cs.out = SelectSeq(SubSeq(cs.input, 1, 12), NonZero)
             /\ (\A i \in 1..12 : cs.input[i] = 0) => cs.out = <<>>

C5_Witness ==
    /\ cs.op = "decode"
    /\ cs.ok
    /\ cs.input = <<0, 118, 0, 0, 120, 0, 118, 0, 0, 120, 0, 118>>
    /\ cs.out = <<118, 120, 118, 120, 118>>

\* the known command tokens the specification lists
SpecTokens ==
    {
     <<118, 101, 114, 115, 105, 111, 110>>,   \* version
     <<118, 101, 114, 97, 99, 107>>,   \* verack
     <<97, 100, 100, 114>>,   \* addr
     <<105, 110, 118>>,   \* inv
     <<103, 101, 116, 100, 97, 116, 97>>,   \* getdata
     <<110, 111, 116, 102, 111, 117, 110, 100>>,   \* notfound
     <<103, 101, 116, 98, 108, 111, 99, 107, 115>>,   \* getblocks
     <<103, 101, 116, 104, 101, 97, 100, 101, 114, 115>>,   \* getheaders
     <<109, 101, 109, 112, 111, 111, 108>>,   \* mempool
     <<116, 120>>,   \* tx
     <<98, 108, 111, 99, 107>>,   \* block
     <<104, 101, 97, 100, 101, 114, 115>>,   \* headers
     <<115, 101, 110, 100, 104, 101, 97, 100, 101, 114, 115>>,   \* sendheaders
     <<103, 101, 116, 97, 100, 100, 114>>,   \* getaddr
     <<112, 105, 110, 103>>,   \* ping
     <<112, 111, 110, 103>>,   \* pong
     <<103, 101, 116, 99, 102, 105, 108, 116, 101, 114, 115>>,   \* getcfilters
     <<99, 102, 105, 108, 116, 101, 114>>,   \* cfilter
     <<103, 101, 116, 99, 102, 104, 101, 97, 100, 101, 114, 115>>,   \* getcfheaders
     <<99, 102, 104, 101, 97, 100, 101, 114, 115>>,   \* cfheaders
     <<103, 101, 116, 99, 102, 99, 107, 112, 116>>,   \* getcfckpt
     <<99, 102, 99, 104, 101, 99, 107, 112, 116>>,   \* cfcheckpt
     <<97, 108, 101, 114, 116>>,   \* alert
     <<114, 101, 106, 101, 99, 116>>,   \* reject
     <<102, 105, 108, 116, 101, 114, 108, 111, 97, 100>>}   \* filterload

\* what the stream holds, read off its bytes: the command field and the frame
FieldString == SelectSeq(SubSeq(wire, 5, 16), NonZero)
DeclaredOnWire == <<wire[17] + 256 * wire[18], wire[19] + 256 * wire[20]>>
OversizedOnWire == LimbsGt(DeclaredOnWire, <<0, 512>>)
FrameComplete ==
    /\ Len(wire) >= 24
    /\ ~OversizedOnWire
    /\ Len(wire) >= 24 + LimbsToNat(DeclaredOnWire)
BodyOnWire == SubSeq(wire, 25, 24 + LimbsToNat(DeclaredOnWire))
FrameValid == FrameComplete /\ sha2_checksum(BodyOnWire) = SubSeq(wire, 21, 24)

\* C6 as claimed: a decode of a stream whose command field decodes to an
\* unknown string fails with UnrecognizedCommand carrying that string, whatever
\* the rest of the stream.
C6_Original ==
    Finished /\ Len(wire) >= 24 /\ FieldString \notin SpecTokens =>
        /\ pc = "failed"
        /\ SpecName(err.kind) = "UnrecognizedCommand"
        /\ err.token = FieldString

\* C6 (amended): a decode of a stream whose command field decodes to a string
\* that is not a known token, and whose checksum frame is valid (length within
\* the bound, body present, checksum matching), fails with UnrecognizedCommand
\* carrying exactly the field's nonzero bytes, and produces no payload; and
\* UnrecognizedCommand is returned for no other stream.
C6_UnknownCommand ==
    /\ Finished /\ FrameValid /\ FieldString \notin SpecTokens =>
          /\ pc = "failed"
          /\ SpecName(err.kind) = "UnrecognizedCommand"
          /\ err.token = FieldString
          /\ routine = ""
          /\ payload.variant = ""
    /\ pc = "failed" /\ err.kind = "UnrecognizedNetworkCommand" /\ cs.op = "" =>
          /\ FrameValid
          /\ FieldString \notin SpecTokens
          /\ err.token = FieldString
          /\ payload.variant = ""

C6_Witness ==
    /\ pc = "failed"
    /\ err.kind = "UnrecognizedNetworkCommand"
    /\ SubSeq(wire, 5, 16) = <<102, 0, 111, 0, 0, 111, 0, 0, 0, 0, 0, 33>>
    /\ err.token = <<102, 111, 111, 33>>

\* C7: when the declared length exceeds MAX_VEC_SIZE the decode fails with
\* OversizedAllocation carrying that length, whatever follows the length field,
\* and at that point exactly 20 bytes were read: the checksum was not read, no
\* body byte was read and no buffer was allocated.
C7_OversizedFirst ==
    /\ Finished /\ Len(wire) >= 20 /\ OversizedOnWire =>
          /\ pc = "failed"
          /\ SpecName(err.kind) = "OversizedAllocation"
          /\ err.requested = Widen(DeclaredOnWire, 4)
          /\ pos = 20
          /\ checksum = <<>>
          /\ allocated = 0
          /\ raw_payload = <<>>
          /\ routine = ""
    /\ allocated > 0 \/ checksum # <<>> => Len(wire) >= 20 /\ ~OversizedOnWire

C7_Witness ==
    /\ pc = "failed"
    /\ err.kind = "OversizedVectorAllocation"
    /\ declared = <<65535, 65535>>
    /\ Len(wire) > 24
    /\ pos = 20

\* C8: the body reaches the dispatch and a payload routine only after its
\* checksum was found equal to the stored one: wherever a routine is selected,
\* running or done, the buffer it reads is the frame's body and its checksum is
\* the stored one; and a stream whose frame is complete with a checksum that
\* differs fails with ChecksumMismatch, no routine selected, no byte of the
\* body interpreted.
C8_IntegrityFirst ==
    /\ (\/ routine # ""
        \/ pc \in {"dispatch", "payload", "h_len", "h_alloc", "h_elem"}
        \/ payload.variant # "") =>
          /\ verified
          /\ FrameValid
          /\ mem_d = BodyOnWire
          /\ checksum = SubSeq(wire, 21, 24)
    /\ Finished /\ FrameComplete /\ sha2_checksum(BodyOnWire) # SubSeq(wire, 21, 24) =>
          /\ pc = "failed"
          /\ SpecName(err.kind) = "ChecksumMismatch"
          /\ ~verified
          /\ routine = ""
          /\ mem_pos = 0
          /\ payload.variant = ""

C8_Witness ==
    /\ pc = "failed"
    /\ err.kind = "InvalidChecksum"
    /\ cmd_str = <<112, 105, 110, 103>>
    /\ raw_payload = <<100, 0, 0, 0, 0, 0, 0, 0>>
    /\ routine = ""

\* the header list inside the body: where the count ends, and the first header
\* (of those present and counted) that is followed by a nonzero byte
CountEnd ==
    IF mem_d[1] < 253 THEN 1 ELSE IF mem_d[1] = 253 THEN 3 ELSE IF mem_d[1] = 254 THEN 5 ELSE 9

FirstMarked(i) ==
    /\ CountEnd + 81 * i <= Len(mem_d)
    /\ ~LimbsGt(NatToLimbs(i, 4), hlen)
    /\ mem_d[CountEnd + 81 * i] # 0
    /\ \A j \in 1..(i - 1) : mem_d[CountEnd + 81 * j] = 0

HeaderListDecoded == routine = "Headers" /\ Finished /\ hlen # <<>>

\* C9 as claimed: whatever the declared count n >= 1, a header list in which
\* header i <= n is the first followed by a nonzero byte fails at that header
\* with ProtocolViolation.
C9_Original ==
    HeaderListDecoded =>
        \A i \in 1..(Len(mem_d) \div 81) :
            FirstMarked(i) =>
                /\ pc = "failed"
                /\ SpecName(err.kind) = "ProtocolViolation"
                /\ Len(ret) = i

\* C9 (amended): for a declared count n with 1 <= n <= 419430 (n * 80 within
\* MAX_VEC_SIZE), a header list in which header i <= n is the first followed by
\* a nonzero byte fails at that header with ParseFailed("Headers message should
\* not contain transactions") and returns no list; a larger count fails before,
\* at the size check.  The encoder writes a zero byte after every header.
C9_HeaderMarker ==
    /\ HeaderListDecoded /\ ~LimbsGt(hlen, <<26214, 6, 0, 0>>) =>
          \A i \in 1..(Len(mem_d) \div 81) :
              FirstMarked(i) =>
                  /\ pc = "failed"
                  /\ SpecName(err.kind) = "ProtocolViolation"
                  /\ err.text = "Headers message should not contain transactions"
                  /\ Len(ret) = i
                  /\ mem_pos = CountEnd + 81 * i
                  /\ payload.variant = ""
    /\ HeaderListDecoded /\ LimbsGt(hlen, <<26214, 6, 0, 0>>) =>
          pc = "failed" /\ ret = <<>> /\ err.text # "Headers message should not contain transactions"
    /\ Encoded /\ msg.payload.variant = "Headers" =>
          /\ Len(wire) = 24 + 1 + 81 * Len(msg.payload.dat)
          /\ \A i \in 1..Len(msg.payload.dat) : wire[24 + 1 + 81 * i] = 0

C9_Witness ==
    /\ pc = "failed"
    /\ routine = "Headers"
    /\ err.text = "Headers message should not contain transactions"
    /\ hlen = <<2, 0, 0, 0>>
    /\ Len(ret) = 2
    /\ mem_d[1 + 81] = 0
    /\ mem_d[1 + 162] = 1

\* C10 as claimed: every declared count whose byte estimate count * 80 exceeds
\* MAX_VEC_SIZE, the counts whose product leaves the machine word included,
\* fails with OversizedAllocation before the vector is allocated and before any
\* header is decoded.
C10_Original ==
    routine = "Headers" /\ hlen # <<>> /\ LimbsGt(hlen, <<26214, 6, 0, 0>>) =>
        /\ pc = "failed"
        /\ SpecName(err.kind) = "OversizedAllocation"
        /\ capacity = -1
        /\ ret = <<>>

\* C10 (amended): on a 64-bit target, a declared count whose product with 80
\* fits the word and exceeds MAX_VEC_SIZE fails with OversizedVectorAllocation
\* carrying the product; a count whose product leaves the word (above
\* 0x0333333333333333) fails with ParseFailed("Invalid length") instead; both
\* before the vector is allocated and before any header is decoded.  A count of
\* at most 419430 passes the size check.
C10_HeaderCount ==
    routine = "Headers" /\ hlen # <<>> =>
        IF LimbsGt(hlen, <<13107, 13107, 13107, 819>>)
        THEN /\ pc = "failed"
             /\ err.kind = "ParseFailed"
             /\ err.text = "Invalid length"
             /\ capacity = -1
             /\ ret = <<>>
             /\ mem_pos = CountEnd
        ELSE IF LimbsGt(hlen, <<26214, 6, 0, 0>>)
        THEN /\ pc = "failed"
             /\ SpecName(err.kind) = "OversizedAllocation"
             /\ err.requested = MulLimbs(hlen, 80, 0)[1]
             /\ LimbsGt(err.requested, NatToLimbs(MAX_VEC_SIZE, 4))
             /\ capacity = -1
             /\ ret = <<>>
             /\ mem_pos = CountEnd
        ELSE /\ err.kind \notin {"OversizedVectorAllocation"}
             /\ err.text # "Invalid length"
             /\ pc \in {"h_elem", "done", "failed"} => capacity = LimbsToNat(hlen)

C10_Witness ==
    /\ pc = "failed"
    /\ routine = "Headers"
    /\ hlen = <<65535, 65535, 65535, 65535>>
    /\ err.text = "Invalid length"
    /\ capacity = -1

\* the envelopes the encoder produces, each with its encoding
EncodedEnvelopes ==
    {[m |-> m, out |-> RawNetworkMessage_encode(m).out] :
        m \in Messages \cup {[magic |-> <<48889, 55732>>, payload |-> p] : p \in ForgedPayloads}}

\* the stream begins with the encoding of envelope e
BeginsWith(e) == Len(e.out) <= Len(wire) /\ SubSeq(wire, 1, Len(e.out)) = e.out

\* C11: a decode of a stream that is a valid encoded envelope E followed by
\* any trailing bytes T succeeds, returns the envelope E encodes, and leaves
\* the stream's cursor at len(E) = 24 + declared body length = len(stream) -
\* len(T); no trailing byte is in the body handed to the payload routine.
C11_PartialDecode ==
    Finished /\ cs.op = "" =>
        \A e \in EncodedEnvelopes :
            BeginsWith(e) =>
                /\ pc = "done"
                /\ magic = e.m.magic
                /\ payload = e.m.payload
                /\ pos = Len(e.out)
                /\ pos = 24 + LimbsToNat(DeclaredOnWire)
                /\ raw_payload = SubSeq(e.out, 25, Len(e.out))
                /\ mem_pos <= Len(raw_payload)

C11_Witness ==
    /\ pc = "done"
    /\ payload = NetworkMessage("Headers", <<BlockHeaderOf(1)>>)
    /\ BeginsWith([m |-> [magic |-> magic, payload |-> payload],
                   out |-> RawNetworkMessage_encode([magic |-> magic, payload |-> payload]).out])
    /\ Len(wire) = pos + 2
    /\ pos = 24 + 1 + 81

\* the payload values whose encodings the bodies are compared with
CandidatePayloads == Payloads \cup ForgedPayloads

\* the frame's body begins with the encoding of payload p
BodyBeginsWith(p) ==
    /\ Len(payload_bytes(p)) <= Len(BodyOnWire)
    /\ SubSeq(BodyOnWire, 1, Len(payload_bytes(p))) = payload_bytes(p)

\* C12: the payload routine reads the frame's validated body and nothing
\* else, and bytes of the body it leaves unread are no error: a valid frame
\* with a known token whose body begins with a valid encoding of a payload of
\* that token decodes to that payload, whatever follows inside the body; the
\* tokens without payload decode with any body.
C12_BodyBounded ==
    /\ routine # "" => mem_d = BodyOnWire /\ mem_pos <= Len(BodyOnWire)
    /\ Finished /\ cs.op = "" /\ FrameValid /\ FieldString \in SpecTokens =>
          /\ \A p \in CandidatePayloads :
                cmd(p.variant) = FieldString /\ BodyBeginsWith(p) =>
                    /\ pc = "done"
                    /\ payload = p
                    /\ mem_pos = Len(payload_bytes(p))
                    /\ pos = 24 + Len(BodyOnWire)
          /\ FieldString \in {cmd("Verack"), cmd("MemPool"), cmd("SendHeaders"), cmd("GetAddr")} =>
                pc = "done" /\ payload.dat = <<>> /\ cmd(payload.variant) = FieldString /\ mem_pos = 0

C12_Witness ==
    /\ pc = "done"
    /\ payload = NetworkMessage("Ping", <<100, 0, 0, 0>>)
    /\ raw_payload = <<100, 0, 0, 0, 0, 0, 0, 0, 7, 0>>
    /\ mem_pos = 8
    /\ pos = Len(wire)

\* the error a payload routine can return
RoutineError == err.kind \in {"Io", "ParseFailed", "OversizedVectorAllocation"}

\* C13: the decoder's checks run in the order magic, command token, checksum
\* frame (length read, oversize, checksum read, body read, checksum compare),
\* dispatch, payload routine, and the error returned is the first failing
\* step's: the returned call stands where the first failing step left it.  A
\* stream with an unknown token and an invalid frame fails with the frame's
\* error, and UnrecognizedCommand is returned only for a fully valid frame.
C13_ErrorPrecedence ==
    /\ Finished /\ cs.op = "" =>
          IF Len(wire) < 4
          THEN pc = "failed" /\ SpecName(err.kind) = "Truncated" /\ pos = 0 /\ magic = <<>>
          ELSE IF Len(wire) < 16
          THEN pc = "failed" /\ SpecName(err.kind) = "Truncated" /\ pos = 4 /\ magic # <<>>
          ELSE IF Len(wire) < 20
          THEN pc = "failed" /\ SpecName(err.kind) = "Truncated" /\ pos = 16 /\ declared = <<>>
          ELSE IF OversizedOnWire
          THEN pc = "failed" /\ SpecName(err.kind) = "OversizedAllocation" /\ pos = 20
          ELSE IF Len(wire) < 24
          THEN pc = "failed" /\ SpecName(err.kind) = "Truncated" /\ pos = 20 /\ checksum = <<>>
          ELSE IF Len(wire) < 24 + LimbsToNat(DeclaredOnWire)
          THEN /\ pc = "failed" /\ SpecName(err.kind) = "Truncated"
               /\ pos = 24 /\ raw_payload = <<>> /\ ~verified
          ELSE IF sha2_checksum(BodyOnWire) # SubSeq(wire, 21, 24)
          THEN /\ pc = "failed" /\ SpecName(err.kind) = "ChecksumMismatch"
               /\ ~verified /\ routine = ""
          ELSE IF FieldString \notin SpecTokens
          THEN /\ pc = "failed" /\ SpecName(err.kind) = "UnrecognizedCommand"
               /\ verified /\ routine = ""
          ELSE /\ verified
               /\ cmd(routine) = FieldString
               /\ pc = "failed" => RoutineError
    /\ pc = "failed" /\ cs.op = "" /\ err.kind = "UnrecognizedNetworkCommand" =>
          verified /\ FrameValid /\ pos = 24 + Len(raw_payload)
    /\ verified => magic # <<>> /\ declared # <<>> /\ checksum # <<>>
    /\ routine # "" => verified

C13_Witness ==
    /\ pc = "failed"
    /\ err.kind = "InvalidChecksum"
    /\ FieldString = <<102, 111, 111>>
    /\ FieldString \notin SpecTokens
    /\ FrameComplete
    /\ routine = ""

====
